---------------------------- MODULE Spec2Model ----------------------------
(***************************************************************************)
(* Age Voyager: the interactive re-generation controller (src/App.tsx),    *)
(* its debounce hook, and the Gemini service wrapper with its retry loop   *)
(* (src/unnamed/part_001, imported as services/geminiService).             *)
(*                                                                         *)
(* The specifications share the variables:                                 *)
(*   Spec         the React component App in its upload and interactive    *)
(*                flow: its state hooks, the debounce timer, the           *)
(*                FileReader reads and the service promises in flight.  A  *)
(*                service promise settles with one of the outcomes the     *)
(*                service can produce.                                     *)
(*   SpecVideo    Spec together with handleCreateVideo and the video       *)
(*                player modal.                                            *)
(*   SpecBatch    the interactive view from a session whose estimate has   *)
(*                arrived: the slider, handleCreateVideo, the modal and    *)
(*                the reset.                                               *)
(*   SpecCompile  one call of createVideoFromImages, step by step.         *)
(*   SpecService  one call of estimatePersonAge / generateAgeImage at a    *)
(*                time, with callGeminiWithRetry's attempts, backoff       *)
(*                delays and the handling of the response.                 *)
(* State updates made by one handler are rendered together; the effects    *)
(* that the render triggers are part of the handler's action.              *)
(***************************************************************************)
EXTENDS Integers, Sequences, FiniteSets, TLC

\* ------------------------------------------------------------------ bounds
MaxUploads      == 2   \* files the user picks in one run of Spec
MaxServiceCalls == 2   \* service calls in one run of SpecService

\* ------------------------------------------------------- program constants
MinAge      == 1       \* slider min / lower clamp
MaxAge      == 100     \* slider max / upper clamp
CurrentYear == 2026    \* new Date().getFullYear()

\* Slider positions and (clamped) estimates the model draws from.
SliderAges    == {34, 60}
EstimatedAges == {34, 43}

\* -------------------------------------------------------------- App state
VARIABLES
    appState,            \* 'idle' | 'estimating' | 'interactive' | 'error'
    uploadedImage,       \* data URL of the uploaded file, or NoImage
    displayImage,        \* image shown by ImageViewer, or NoImage
    estimatedAge,        \* number, or NullAge
    targetAge,           \* slider value (0 before the first estimate)
    isGenerating,        \* an interactive generation is running
    isVideoGenerating,   \* handleCreateVideo is running
    videoGenerationMessage,  \* progress text of the video button
    generatedVideoUrl,   \* the blob URL of the compiled video, or NoVideo
    showVideoModal,      \* the video player modal is open
    objectUrls,          \* the blob URLs URL.createObjectURL has handed out
                         \* and that were not revoked
    errorMessage,        \* NoError or <<stage, error>>
    debouncedTargetAge,  \* useDebounce's debouncedValue
    timer,               \* useDebounce's pending setTimeout: its value, or NoTimer
    readers,             \* FileReader reads in flight (upload numbers)
    estimates,           \* estimatePersonAge promises in flight (upload numbers)
    generations,         \* generateAgeImage promises of generateNewAgeImage in
                         \* flight, in the order they were issued
    batch,               \* the running handleCreateVideo: where it awaits, the
                         \* frames collected, the closure's image and age
    uploads              \* files picked so far

appVars == <<appState, uploadedImage, displayImage, estimatedAge, targetAge,
             isGenerating, isVideoGenerating, videoGenerationMessage,
             generatedVideoUrl, showVideoModal, objectUrls, errorMessage,
             debouncedTargetAge, timer, readers, estimates, generations,
             batch, uploads>>

\* The state of the video flow, which the interactive flow leaves alone.
videoVars == <<isVideoGenerating, videoGenerationMessage, generatedVideoUrl,
               showVideoModal, objectUrls, batch>>

\* -------------------------------------------------- service-call state
VARIABLES
    svcFn,       \* the exported function running: 'none', 'estimatePersonAge',
                 \* 'generateAgeImage'
    svcPc,       \* 'idle' | 'request' | 'backoff' | 'resolved' | 'rejected'
    attempt,     \* callGeminiWithRetry's loop variable
    delays,      \* the setTimeout delays the loop has waited, in order
    outcomes,    \* what each generateContent attempt so far ended with
    response,    \* the GenerateContentResponse the wrapper returned
    retryEnd,    \* how callGeminiWithRetry ended: returned, or threw an error
    svcResult,   \* what the exported function's promise settled with
    svcCalls     \* service calls started so far

svcVars == <<svcFn, svcPc, attempt, delays, outcomes, response, retryEnd,
             svcResult, svcCalls>>

\* ------------------------------------------ createVideoFromImages state
VARIABLES
    cvPc,        \* 'idle' | 'loading' | 'holding' | 'stopping' | 'resolved' |
                 \* 'rejected': where the call awaits, or how it ended
    cvImages,    \* the argument imageUrls
    cvI,         \* the image being loaded or held, counted from 1
    cvEvents,    \* what the call has done so far, in order
    cvCanvas,    \* the image that gave the canvas its size, or NoImage
    cvRecorder,  \* the MediaRecorder: 'none' | 'recording' | 'inactive'
    cvRecorderFailed,    \* recorder.onerror has rejected recorderStopped
    cvResult     \* what the returned promise settled with

compileVars == <<cvPc, cvImages, cvI, cvEvents, cvCanvas, cvRecorder,
                 cvRecorderFailed, cvResult>>

vars == <<appVars, svcVars, compileVars>>

\* Images: the data URL read from the k-th picked file, and the data URL
\* generateAgeImage returns for a source image and a prompt.
NoImage == [kind |-> "none", src |-> 0, age |-> 0, year |-> 0]
Src(k)  == [kind |-> "upload", src |-> k, age |-> 0, year |-> 0]
Gen(img, prompt) ==
    [kind |-> "generated", src |-> img.src, age |-> prompt.age,
     year |-> prompt.targetYear]
\* The image generateAgeImage returns for a frame of the video.
Frame(img, prompt) ==
    [kind |-> "frame", src |-> img.src, age |-> prompt.age,
     year |-> prompt.targetYear]
NoVideo == <<>>                  \* generatedVideoUrl === null
Message(stage, i, age) == [stage |-> stage, i |-> i, age |-> age]
NoMessage == Message("", 0, 0)
NoBatch == [pc |-> "idle", i |-> 0, frames |-> <<>>, msgs |-> <<>>,
            up |-> NoImage, est |-> 0]
NullAge == -1
NoTimer == -1
NoError == <<"none", "none">>

\* An error: its kind and what its message contains.  code500 and internal
\* say whether the message includes '"code":500' and 'INTERNAL'; wrapped
\* says generateAgeImage's catch prefixed it with its own text; text is the
\* response text the message quotes ("" when it quotes none).
Err(name, c500, int) ==
    [name |-> name, code500 |-> c500, internal |-> int, wrapped |-> FALSE,
     text |-> ""]
NoErr == Err("none", FALSE, FALSE)
Ok    == Err("ok", FALSE, FALSE)      \* an attempt that returned a response
\* What ai.models.generateContent can throw.
ApiErrors == {Err("ApiError", a, b) : a, b \in BOOLEAN}

NoResponse == [kind |-> "none", age |-> 0, text |-> ""]
NoRetryEnd == [status |-> "none", err |-> NoErr]
NoResult   == [status |-> "none", age |-> 0, err |-> NoErr]

\* Errors estimatePersonAge / generateAgeImage reject with, as the
\* controller sees them.
EstimateErrors == {"InvalidResponseFormat", "ApiError"}
GenerateErrors == {"NoImageInResponse", "ApiError"}
\* Errors createVideoFromImages rejects with.
CompileErrors  == {"ImageLoadError", "UnsupportedEncoding"}

Min2(a, b) == IF a < b THEN a ELSE b
Max2(a, b) == IF a > b THEN a ELSE b

RemoveAt(s, i) == [j \in 1..(Len(s) - 1) |-> IF j < i THEN s[j] ELSE s[j + 1]]

\* The prompt of generateNewAgeImage: the age and the calendar year it embeds.
Prompt(newAge, est) ==
    [age |-> newAge, targetYear |-> (CurrentYear - est) + newAge]

\* The promise of a generateAgeImage call: latest says no call was issued
\* after it.
Issue(gs, up, est, newAge) ==
    Append([j \in 1..Len(gs) |-> [gs[j] EXCEPT !.latest = FALSE]],
           [img |-> up, est |-> est, prompt |-> Prompt(newAge, est),
            latest |-> TRUE])

\* Variant: setErrorMessage('') left out at the start of a generation.
GenerateNewAgeImageKeepsError(newAge, up, est, disp, gen, err, gs) ==
    IF up = NoImage \/ est = NullAge \/ est = 0 \/ newAge = est
    THEN /\ displayImage' = up
         /\ isGenerating' = gen
         /\ errorMessage' = err
         /\ generations' = gs
    ELSE /\ displayImage' = disp
         /\ isGenerating' = TRUE
         /\ errorMessage' = err
         /\ generations' = Issue(gs, up, est, newAge)

\* generateNewAgeImage(newAge), called with the closure values up/est and the
\* state the caller has set so far (disp, gen, err, gs).
GenerateNewAgeImage(newAge, up, est, disp, gen, err, gs) ==
    IF up = NoImage \/ est = NullAge \/ est = 0 \/ newAge = est
    THEN /\ displayImage' = up
         /\ isGenerating' = gen
         /\ errorMessage' = err
         /\ generations' = gs
    ELSE /\ displayImage' = disp
         /\ isGenerating' = TRUE
         /\ errorMessage' = NoError
         /\ generations' = Issue(gs, up, est, newAge)

\* Variant of the effect: the branch that shows the original again at the
\* estimated age left out.
RegenerationEffectNoRevert(run, as, deb, est, up, disp, gen, err, gs) ==
    IF run /\ as = "interactive" /\ deb # est
    THEN GenerateNewAgeImage(deb, up, est, disp, gen, err, gs)
    ELSE /\ displayImage' = disp
         /\ isGenerating' = gen
         /\ errorMessage' = err
         /\ generations' = gs

\* The regeneration effect, run after a render in which one of its
\* dependencies changed (run), on the rendered values as/deb/est/up.
RegenerationEffect(run, as, deb, est, up, disp, gen, err, gs) ==
    IF run /\ as = "interactive" /\ deb # est
    THEN GenerateNewAgeImage(deb, up, est, disp, gen, err, gs)
    ELSE /\ displayImage' = IF run /\ as = "interactive" THEN up ELSE disp
         /\ isGenerating' = gen
         /\ errorMessage' = err
         /\ generations' = gs

\* useDebounce's effect: a change of value clears the pending timeout and
\* schedules a new one carrying the new value.
DebounceEffect(newValue) ==
    timer' = IF newValue # targetAge THEN newValue ELSE timer

\* src.substring(0, 50) of a data URL: 'data:', the media type, ';base64,'
\* and the first bytes of the file, which hold the signature of its format
\* and the start of its header, not the picture.
Substring50(src) ==
    IF src.kind = "upload"
    THEN "data:<file type>;base64,<file header>"
    ELSE "data:<mimeType>;base64,<image header>"

\* What createVideoFromImages' promise settled with: the blob URL, or the
\* error and the part of the image's URL its message quotes.
NoCompileResult ==
    [status |-> "none", url |-> <<>>, err |-> "none", src |-> ""]
CompileResolved(url) ==
    [status |-> "resolved", url |-> url, err |-> "none", src |-> ""]
CompileRejected(err, src) ==
    [status |-> "rejected", url |-> <<>>, err |-> err, src |-> src]

TypeOK ==
    /\ appState \in {"idle", "estimating", "interactive", "error"}
    /\ uploadedImage \in {NoImage} \cup {Src(k) : k \in 1..MaxUploads}
    /\ estimatedAge \in {NullAge} \cup (MinAge..MaxAge)
    /\ targetAge \in 0..MaxAge
    /\ debouncedTargetAge \in 0..MaxAge
    /\ timer \in {NoTimer} \cup (0..MaxAge)
    /\ isGenerating \in BOOLEAN
    /\ isVideoGenerating \in BOOLEAN
    /\ showVideoModal \in BOOLEAN
    /\ batch.pc \in {"idle", "frame", "compile"}
    /\ readers \subseteq 1..MaxUploads
    /\ estimates \subseteq 1..MaxUploads
    /\ uploads \in 0..MaxUploads

Init ==
    /\ appState = "idle"
    /\ uploadedImage = NoImage
    /\ displayImage = NoImage
    /\ estimatedAge = NullAge
    /\ targetAge = 0
    /\ isGenerating = FALSE
    /\ errorMessage = NoError
    /\ debouncedTargetAge = 0
    /\ timer = 0               \* the mount effect of useDebounce
    /\ readers = {}
    /\ estimates = {}
    /\ generations = <<>>
    /\ isVideoGenerating = FALSE
    /\ videoGenerationMessage = NoMessage
    /\ generatedVideoUrl = NoVideo
    /\ showVideoModal = FALSE
    /\ objectUrls = {}
    /\ batch = NoBatch
    /\ uploads = 0
    /\ svcFn = "none"
    /\ svcPc = "idle"
    /\ attempt = 0
    /\ delays = <<>>
    /\ outcomes = <<>>
    /\ response = NoResponse
    /\ retryEnd = NoRetryEnd
    /\ svcResult = NoResult
    /\ svcCalls = 0
    /\ cvPc = "idle"
    /\ cvImages = <<>>
    /\ cvI = 0
    /\ cvEvents = <<>>
    /\ cvCanvas = NoImage
    /\ cvRecorder = "none"
    /\ cvRecorderFailed = FALSE
    /\ cvResult = NoCompileResult

\* renderContent's isBusy, which disables the slider and the buttons of the
\* interactive view.
IsBusy == isGenerating \/ isVideoGenerating

\* handleImageUpload: the file input of the idle view starts a FileReader.
HandleImageUpload ==
    /\ appState = "idle"
    /\ uploads < MaxUploads
    /\ uploads' = uploads + 1
    /\ readers' = readers \cup {uploads + 1}
    /\ UNCHANGED <<svcVars, compileVars, videoVars>>
    /\ UNCHANGED <<appState, uploadedImage, displayImage, estimatedAge,
                   targetAge, isGenerating, errorMessage, debouncedTargetAge,
                   timer, estimates, generations>>

\* reader.onloadend up to the await of estimatePersonAge.
ReaderLoadEnd(k) ==
    /\ k \in readers
    /\ readers' = readers \ {k}
    /\ uploadedImage' = Src(k)
    /\ appState' = "estimating"
    /\ estimates' = estimates \cup {k}
    /\ RegenerationEffect(TRUE, "estimating", debouncedTargetAge, estimatedAge,
                          Src(k), Src(k), isGenerating, NoError, generations)
    /\ UNCHANGED <<svcVars, compileVars, videoVars>>
    /\ UNCHANGED <<estimatedAge, targetAge, debouncedTargetAge, timer,
                   uploads>>

\* estimatePersonAge resolved with age: the try branch of onloadend.
EstimateResolved(k, age) ==
    /\ k \in estimates
    /\ estimates' = estimates \ {k}
    /\ estimatedAge' = age
    /\ targetAge' = age
    /\ appState' = "interactive"
    /\ DebounceEffect(age)
    /\ RegenerationEffect(appState # "interactive" \/ estimatedAge # age,
                          "interactive", debouncedTargetAge, age, uploadedImage,
                          displayImage, isGenerating, errorMessage, generations)
    /\ UNCHANGED <<svcVars, compileVars, videoVars>>
    /\ UNCHANGED <<uploadedImage, debouncedTargetAge, readers, uploads>>

\* estimatePersonAge rejected: the catch branch of onloadend.
EstimateRejected(k, e) ==
    /\ k \in estimates
    /\ estimates' = estimates \ {k}
    /\ appState' = "error"
    /\ errorMessage' = <<"estimate", e>>
    /\ UNCHANGED <<svcVars, compileVars, videoVars>>
    /\ UNCHANGED <<uploadedImage, displayImage, estimatedAge, targetAge,
                   isGenerating, debouncedTargetAge, timer, readers,
                   generations, uploads>>

\* The slider's onChange: setTargetAge(parseInt(value)).  The slider is
\* rendered in the interactive view when estimatedAge is set, and disabled
\* while busy.
SetTargetAge(v) ==
    /\ appState = "interactive"
    /\ estimatedAge # NullAge
    /\ ~IsBusy
    /\ v # targetAge
    /\ targetAge' = v
    /\ DebounceEffect(v)
    /\ UNCHANGED <<svcVars, compileVars, videoVars>>
    /\ UNCHANGED <<appState, uploadedImage, displayImage, estimatedAge,
                   isGenerating, errorMessage, debouncedTargetAge, readers,
                   estimates, generations, uploads>>

\* The debounce timeout fires: setDebouncedValue(value), then the
\* regeneration effect if the debounced value changed.
DebounceFire ==
    /\ timer # NoTimer
    /\ timer' = NoTimer
    /\ debouncedTargetAge' = timer
    /\ RegenerationEffect(timer # debouncedTargetAge, appState, timer,
                          estimatedAge, uploadedImage, displayImage,
                          isGenerating, errorMessage, generations)
    /\ UNCHANGED <<svcVars, compileVars, videoVars>>
    /\ UNCHANGED <<appState, uploadedImage, estimatedAge, targetAge, readers,
                   estimates, uploads>>

\* generateAgeImage resolved inside generateNewAgeImage: try, then finally.
GenerateResolved(i) ==
    /\ i \in DOMAIN generations
    /\ displayImage' = Gen(generations[i].img, generations[i].prompt)
    /\ isGenerating' = FALSE
    /\ generations' = RemoveAt(generations, i)
    /\ UNCHANGED <<svcVars, compileVars, videoVars>>
    /\ UNCHANGED <<appState, uploadedImage, estimatedAge, targetAge,
                   errorMessage, debouncedTargetAge, timer, readers, estimates,
                   uploads>>

\* Variant of the catch: the failure sends the session to the error view.
GenerateRejectedFatal(i, e) ==
    /\ i \in DOMAIN generations
    /\ errorMessage' = <<"generate", e>>
    /\ appState' = "error"
    /\ isGenerating' = FALSE
    /\ generations' = RemoveAt(generations, i)
    /\ UNCHANGED <<svcVars, compileVars, videoVars>>
    /\ UNCHANGED <<uploadedImage, displayImage, estimatedAge, targetAge,
                   debouncedTargetAge, timer, readers, estimates, uploads>>

\* generateAgeImage rejected inside generateNewAgeImage: catch, then finally.
GenerateRejected(i, e) ==
    /\ i \in DOMAIN generations
    /\ errorMessage' = <<"generate", e>>
    /\ isGenerating' = FALSE
    /\ generations' = RemoveAt(generations, i)
    /\ UNCHANGED <<svcVars, compileVars, videoVars>>
    /\ UNCHANGED <<appState, uploadedImage, displayImage, estimatedAge,
                   targetAge, debouncedTargetAge, timer, readers, estimates,
                   uploads>>

\* handleReset: Start Over (interactive view, disabled while busy) or
\* Try Again (error view).
HandleReset ==
    /\ \/ appState = "interactive" /\ ~IsBusy
       \/ appState = "error"
    /\ appState' = "idle"
    /\ uploadedImage' = NoImage
    /\ displayImage' = NoImage
    /\ estimatedAge' = NullAge
    /\ targetAge' = 0
    /\ isGenerating' = FALSE
    /\ errorMessage' = NoError
    /\ DebounceEffect(0)
    /\ isVideoGenerating' = FALSE
    /\ videoGenerationMessage' = NoMessage
    /\ generatedVideoUrl' = NoVideo
    /\ showVideoModal' = FALSE
    /\ UNCHANGED <<svcVars, compileVars, batch, objectUrls>>
    /\ UNCHANGED <<debouncedTargetAge, readers, estimates, generations,
                   uploads>>

\* --------------------------------------------------------- the video flow
NumFrames == 20

\* Variant: Math.floor in place of Math.round.
AgeOfFrameFloor(i) == 1 + ((i * 99) \div 19)

\* Math.round(1 + i * (99 / 19)) for the 0-based index i.
AgeOfFrame(i) == 1 + ((2 * i * 99 + 19) \div 38)
\* agesToGenerate, 1-based.
AgesToGenerate == [i \in 1..NumFrames |-> AgeOfFrame(i - 1)]

\* generatedFrames.sort((a, b) => a.age - b.age): a stable sort by age.
RECURSIVE InsertByAge(_, _)
InsertByAge(s, f) ==
    IF s = <<>> THEN <<f>>
    ELSE IF s[Len(s)].age <= f.age THEN Append(s, f)
    ELSE Append(InsertByAge(SubSeq(s, 1, Len(s) - 1), f), s[Len(s)])
\* Variant of the comparator: (a, b) => b.age - a.age.
RECURSIVE SortByAgeDescending(_)
SortByAgeDescending(s) ==
    IF s = <<>> THEN <<>>
    ELSE LET r == SortByAgeDescending(SubSeq(s, 1, Len(s) - 1))
             f == s[Len(s)]
             k == Cardinality({j \in 1..Len(r) : r[j].age >= f.age})
         IN SubSeq(r, 1, k) \o <<f>> \o SubSeq(r, k + 1, Len(r))

RECURSIVE SortByAge(_)
SortByAge(s) ==
    IF s = <<>> THEN <<>>
    ELSE InsertByAge(SortByAge(SubSeq(s, 1, Len(s) - 1)), s[Len(s)])

ImageUrls(frames) == [j \in 1..Len(frames) |-> frames[j].url]

\* handleCreateVideo's loop from frame i on, up to its next await: the
\* frame's progress message is set, and a frame at the estimated age takes
\* the uploaded image without awaiting; after the last frame the sorted
\* images go to createVideoFromImages, which reports its first progress
\* message before it awaits the first image.  msgs are the calls of
\* setVideoGenerationMessage made so far.
\* Variant of the loop: every frame is requested, the one at the estimated
\* age too.
RunBatchNoReuse(i, frames, msgs, up, est) ==
    IF i > NumFrames
    THEN LET done == msgs \o <<Message("Compiling frames into video", 0, 0),
                                Message("Initializing video encoder", 0, 0)>>
         IN /\ batch' = [pc |-> "compile", i |-> i,
                         frames |-> SortByAge(frames), msgs |-> done,
                         up |-> up, est |-> est]
            /\ videoGenerationMessage' = done[Len(done)]
    ELSE LET m == Message("Generating frame", i, AgesToGenerate[i])
         IN /\ batch' = [pc |-> "frame", i |-> i, frames |-> frames,
                         msgs |-> Append(msgs, m), up |-> up, est |-> est]
            /\ videoGenerationMessage' = m

\* Variant of the loop: the progress message of a frame is set after the
\* frame's image has been awaited.
RunBatchMessageAfter(i, frames, msgs, up, est) ==
    IF i > NumFrames
    THEN LET done == msgs \o <<Message("Compiling frames into video", 0, 0),
                                Message("Initializing video encoder", 0, 0)>>
         IN /\ batch' = [pc |-> "compile", i |-> i,
                         frames |-> SortByAge(frames), msgs |-> done,
                         up |-> up, est |-> est]
            /\ videoGenerationMessage' = done[Len(done)]
    ELSE LET before == IF i = 1 THEN msgs
                       ELSE Append(msgs, Message("Generating frame", i - 1,
                                                 AgesToGenerate[i - 1]))
         IN /\ batch' = [pc |-> "frame", i |-> i, frames |-> frames,
                         msgs |-> before, up |-> up, est |-> est]
            /\ videoGenerationMessage' =
                   IF before = <<>> THEN NoMessage ELSE before[Len(before)]

RECURSIVE RunBatch(_, _, _, _, _)
RunBatch(i, frames, msgs, up, est) ==
    IF i > NumFrames
    THEN LET done == msgs \o <<Message("Compiling frames into video", 0, 0),
                                Message("Initializing video encoder", 0, 0)>>
         IN /\ batch' = [pc |-> "compile", i |-> i,
                         frames |-> SortByAge(frames), msgs |-> done,
                         up |-> up, est |-> est]
            /\ videoGenerationMessage' = done[Len(done)]
    ELSE LET m == Message("Generating frame", i, AgesToGenerate[i])
         IN IF AgesToGenerate[i] = est
            THEN RunBatch(i + 1,
                          Append(frames, [age |-> AgesToGenerate[i], url |-> up]),
                          Append(msgs, m), up, est)
            ELSE /\ batch' = [pc |-> "frame", i |-> i, frames |-> frames,
                              msgs |-> Append(msgs, m), up |-> up, est |-> est]
                 /\ videoGenerationMessage' = m

\* Variant: the URL of the previous video is not cleared at the start.
HandleCreateVideoKeepsUrl ==
    /\ appState = "interactive"
    /\ ~IsBusy
    /\ uploadedImage # NoImage
    /\ estimatedAge # NullAge /\ estimatedAge # 0
    /\ isVideoGenerating' = TRUE
    /\ errorMessage' = NoError
    /\ RunBatch(1, <<>>, <<>>, uploadedImage, estimatedAge)
    /\ UNCHANGED <<svcVars, compileVars, objectUrls, generatedVideoUrl>>
    /\ UNCHANGED <<appState, uploadedImage, displayImage, estimatedAge,
                   targetAge, isGenerating, showVideoModal,
                   debouncedTargetAge, timer, readers, estimates, generations,
                   uploads>>

\* Variant: the button is not disabled while busy.
HandleCreateVideoNotDisabled ==
    /\ appState = "interactive"
    /\ uploadedImage # NoImage
    /\ estimatedAge # NullAge /\ estimatedAge # 0
    /\ isVideoGenerating' = TRUE
    /\ errorMessage' = NoError
    /\ generatedVideoUrl' = NoVideo
    /\ RunBatch(1, <<>>, <<>>, uploadedImage, estimatedAge)
    /\ UNCHANGED <<svcVars, compileVars, objectUrls>>
    /\ UNCHANGED <<appState, uploadedImage, displayImage, estimatedAge,
                   targetAge, isGenerating, showVideoModal,
                   debouncedTargetAge, timer, readers, estimates, generations,
                   uploads>>

\* handleCreateVideo up to its first await.  The button is rendered in the
\* interactive view and disabled while busy.
HandleCreateVideo ==
    /\ appState = "interactive"
    /\ ~IsBusy
    /\ uploadedImage # NoImage
    /\ estimatedAge # NullAge /\ estimatedAge # 0
    /\ isVideoGenerating' = TRUE
    /\ errorMessage' = NoError
    /\ generatedVideoUrl' = NoVideo
    /\ RunBatch(1, <<>>, <<>>, uploadedImage, estimatedAge)
    /\ UNCHANGED <<svcVars, compileVars, objectUrls>>
    /\ UNCHANGED <<appState, uploadedImage, displayImage, estimatedAge,
                   targetAge, isGenerating, showVideoModal,
                   debouncedTargetAge, timer, readers, estimates, generations,
                   uploads>>

\* generateAgeImage resolved for the frame the loop awaits.
VideoFrameResolved ==
    /\ batch.pc = "frame"
    /\ LET age == AgesToGenerate[batch.i]
           url == Frame(batch.up, Prompt(age, batch.est))
       IN RunBatch(batch.i + 1, Append(batch.frames, [age |-> age, url |-> url]),
                   batch.msgs, batch.up, batch.est)
    /\ UNCHANGED <<svcVars, compileVars, objectUrls>>
    /\ UNCHANGED <<appState, uploadedImage, displayImage, estimatedAge,
                   targetAge, isGenerating, isVideoGenerating,
                   generatedVideoUrl, showVideoModal, errorMessage,
                   debouncedTargetAge, timer, readers, estimates, generations,
                   uploads>>

\* generateAgeImage rejected for a frame, or createVideoFromImages rejected:
\* handleCreateVideo's catch, then finally.
VideoFailed(e) ==
    /\ \/ batch.pc = "frame" /\ e \in GenerateErrors
       \/ batch.pc = "compile" /\ e \in CompileErrors
    /\ errorMessage' = <<"video", e>>
    /\ isVideoGenerating' = FALSE
    /\ videoGenerationMessage' = NoMessage
    /\ batch' = NoBatch
    /\ UNCHANGED <<svcVars, compileVars, objectUrls>>
    /\ UNCHANGED <<appState, uploadedImage, displayImage, estimatedAge,
                   targetAge, isGenerating, generatedVideoUrl, showVideoModal,
                   debouncedTargetAge, timer, readers, estimates, generations,
                   uploads>>

\* createVideoFromImages resolved with the blob URL of the video made of the
\* images it was given (URL.createObjectURL in recorder.onstop): the rest
\* of the try, then finally.
VideoCompiled ==
    /\ batch.pc = "compile"
    /\ generatedVideoUrl' = ImageUrls(batch.frames)
    /\ objectUrls' = objectUrls \cup {ImageUrls(batch.frames)}
    /\ showVideoModal' = TRUE
    /\ isVideoGenerating' = FALSE
    /\ videoGenerationMessage' = NoMessage
    /\ batch' = NoBatch
    /\ UNCHANGED <<svcVars, compileVars>>
    /\ UNCHANGED <<appState, uploadedImage, displayImage, estimatedAge,
                   targetAge, isGenerating, errorMessage, debouncedTargetAge,
                   timer, readers, estimates, generations, uploads>>

\* handleCloseModal, from the modal's backdrop or close button.
HandleCloseModal ==
    /\ showVideoModal /\ generatedVideoUrl # NoVideo
    /\ showVideoModal' = FALSE
    /\ UNCHANGED <<svcVars, compileVars, objectUrls>>
    /\ UNCHANGED <<appState, uploadedImage, displayImage, estimatedAge,
                   targetAge, isGenerating, isVideoGenerating,
                   videoGenerationMessage, generatedVideoUrl, errorMessage,
                   debouncedTargetAge, timer, readers, estimates, generations,
                   batch, uploads>>

Next ==
    \/ HandleImageUpload
    \/ \E k \in readers : ReaderLoadEnd(k)
    \/ \E k \in estimates, age \in EstimatedAges : EstimateResolved(k, age)
    \/ \E k \in estimates, e \in EstimateErrors : EstimateRejected(k, e)
    \/ \E v \in SliderAges : SetTargetAge(v)
    \/ DebounceFire
    \/ \E i \in DOMAIN generations : GenerateResolved(i)
    \/ \E i \in DOMAIN generations, e \in GenerateErrors : GenerateRejected(i, e)
    \/ HandleReset

Spec == Init /\ [][Next]_vars

NextVideo ==
    \/ Next
    \/ HandleCreateVideo
    \/ VideoFrameResolved
    \/ \E e \in GenerateErrors \cup CompileErrors : VideoFailed(e)
    \/ VideoCompiled
    \/ HandleCloseModal

SpecVideo == Init /\ [][NextVideo]_vars

\* The video flow from an interactive session: one file was uploaded, its
\* age estimated, and the slider rests at the estimated age with the
\* original on display.  The estimate is one of 34 (not a frame age), 43 (a
\* frame age) and the ends of the range (the first and the last frame age).
BatchEstimatedAges == EstimatedAges \cup {MinAge, MaxAge}

InitBatch ==
    /\ appState = "interactive"
    /\ uploadedImage = Src(1)
    /\ displayImage = Src(1)
    /\ estimatedAge \in BatchEstimatedAges
    /\ targetAge = estimatedAge
    /\ debouncedTargetAge = estimatedAge
    /\ timer = NoTimer
    /\ isGenerating = FALSE
    /\ errorMessage = NoError
    /\ readers = {}
    /\ estimates = {}
    /\ generations = <<>>
    /\ isVideoGenerating = FALSE
    /\ videoGenerationMessage = NoMessage
    /\ generatedVideoUrl = NoVideo
    /\ showVideoModal = FALSE
    /\ objectUrls = {}
    /\ batch = NoBatch
    /\ uploads = 1
    /\ svcFn = "none"
    /\ svcPc = "idle"
    /\ attempt = 0
    /\ delays = <<>>
    /\ outcomes = <<>>
    /\ response = NoResponse
    /\ retryEnd = NoRetryEnd
    /\ svcResult = NoResult
    /\ svcCalls = 0
    /\ cvPc = "idle"
    /\ cvImages = <<>>
    /\ cvI = 0
    /\ cvEvents = <<>>
    /\ cvCanvas = NoImage
    /\ cvRecorder = "none"
    /\ cvRecorderFailed = FALSE
    /\ cvResult = NoCompileResult

NextBatch ==
    \/ \E v \in SliderAges : SetTargetAge(v)
    \/ DebounceFire
    \/ \E i \in DOMAIN generations : GenerateResolved(i)
    \/ \E i \in DOMAIN generations, e \in GenerateErrors : GenerateRejected(i, e)
    \/ HandleReset
    \/ HandleCreateVideo
    \/ VideoFrameResolved
    \/ \E e \in GenerateErrors \cup CompileErrors : VideoFailed(e)
    \/ VideoCompiled
    \/ HandleCloseModal

SpecBatch == InitBatch /\ [][NextBatch]_vars

\* ------------------------------------------------- createVideoFromImages
MaxCompileImages == 3   \* images in the sequence given to the compiler

\* The image URLs the sequences are made of, and the sequences.
CompileImageSet == {Src(1), Frame(Src(1), Prompt(1, 34))}
CompileInputs ==
    UNION {[1..n -> CompileImageSet] : n \in 0..MaxCompileImages}

\* A step of the call: a progress message, an image load started, the
\* canvas or the recorder created, the recorder started or stopped, an image
\* drawn, a hold ended, the blob URL created.
Ev(ev, i) == [ev |-> ev, i |-> i]

\* Variant: the test for an empty array made after the first progress
\* message.
CompileStartLateCheck(imageUrls) ==
    /\ cvPc = "idle"
    /\ cvImages' = imageUrls
    /\ IF Len(imageUrls) = 0
       THEN /\ cvPc' = "rejected"
            /\ cvResult' = CompileRejected("EmptyInput", "")
            /\ cvEvents' = Append(cvEvents, Ev("progress:initializing", 0))
            /\ UNCHANGED cvI
       ELSE /\ cvPc' = "loading"
            /\ cvI' = 1
            /\ cvEvents' = cvEvents \o <<Ev("progress:initializing", 0),
                                         Ev("load", 1)>>
            /\ UNCHANGED cvResult
    /\ UNCHANGED <<cvCanvas, cvRecorder, cvRecorderFailed>>
    /\ UNCHANGED <<appVars, svcVars>>

\* createVideoFromImages(imageUrls, ...) up to its first await.
CompileStart(imageUrls) ==
    /\ cvPc = "idle"
    /\ cvImages' = imageUrls
    /\ IF Len(imageUrls) = 0
       THEN /\ cvPc' = "rejected"
            /\ cvResult' = CompileRejected("EmptyInput", "")
            /\ UNCHANGED <<cvI, cvEvents>>
       ELSE /\ cvPc' = "loading"
            /\ cvI' = 1
            /\ cvEvents' = cvEvents \o <<Ev("progress:initializing", 0),
                                         Ev("load", 1)>>
            /\ UNCHANGED cvResult
    /\ UNCHANGED <<cvCanvas, cvRecorder, cvRecorderFailed>>
    /\ UNCHANGED <<appVars, svcVars>>

\* img.onload of the image awaited.  After the first image: the canvas, its
\* context (ctx says getContext returned one), the encoding test (supported
\* is MediaRecorder.isTypeSupported's answer), the recorder and its start,
\* then the first turn of the loop up to its hold.  After a later image:
\* the draw, up to the hold.
ImageLoaded(ctx, supported) ==
    /\ cvPc = "loading"
    /\ IF cvI = 1
       THEN /\ cvCanvas' = cvImages[1]
            /\ IF ~ctx
               THEN /\ cvPc' = "rejected"
                    /\ cvResult' = CompileRejected("NoCanvasContext", "")
                    /\ cvEvents' = Append(cvEvents, Ev("canvas", 0))
                    /\ UNCHANGED cvRecorder
               ELSE IF ~supported
               THEN /\ cvPc' = "rejected"
                    /\ cvResult' = CompileRejected("UnsupportedEncoding", "")
                    /\ cvEvents' = Append(cvEvents, Ev("canvas", 0))
                    /\ UNCHANGED cvRecorder
               ELSE /\ cvPc' = "holding"
                    /\ cvRecorder' = "recording"
                    /\ cvEvents' = cvEvents \o
                          <<Ev("canvas", 0), Ev("recorder", 0), Ev("start", 0),
                            Ev("progress:encoding", 1), Ev("draw", 1)>>
                    /\ UNCHANGED cvResult
       ELSE /\ cvPc' = "holding"
            /\ cvEvents' = Append(cvEvents, Ev("draw", cvI))
            /\ UNCHANGED <<cvCanvas, cvRecorder, cvResult>>
    /\ UNCHANGED <<cvImages, cvI, cvRecorderFailed>>
    /\ UNCHANGED <<appVars, svcVars>>

\* img.onerror of the image awaited: the error's message quotes the first
\* 50 characters of the image's URL.
ImageLoadFailed ==
    /\ cvPc = "loading"
    /\ cvPc' = "rejected"
    /\ cvResult' = CompileRejected("ImageLoadError", Substring50(cvImages[cvI]))
    /\ UNCHANGED <<cvImages, cvI, cvEvents, cvCanvas, cvRecorder,
                   cvRecorderFailed>>
    /\ UNCHANGED <<appVars, svcVars>>

\* The hold of frameDurationMs ends: the next turn of the loop up to its
\* load, or after the last image the final message, recorder.stop() and the
\* return of recorderStopped.
\* Variant: recorder.stop() called before the final message.
HoldElapsedStopFirst ==
    /\ cvPc = "holding"
    /\ IF cvI < Len(cvImages)
       THEN /\ cvI' = cvI + 1
            /\ cvPc' = "loading"
            /\ cvEvents' = cvEvents \o
                  <<Ev("hold", cvI), Ev("progress:encoding", cvI + 1),
                    Ev("load", cvI + 1)>>
            /\ UNCHANGED <<cvRecorder, cvResult>>
       ELSE /\ cvRecorder' = "inactive"
            /\ cvEvents' = cvEvents \o
                  <<Ev("hold", cvI), Ev("stop", 0), Ev("progress:finalizing", 0)>>
            /\ IF cvRecorderFailed
               THEN /\ cvPc' = "rejected"
                    /\ cvResult' = CompileRejected("RecorderError", "")
               ELSE /\ cvPc' = "stopping"
                    /\ UNCHANGED cvResult
            /\ UNCHANGED cvI
    /\ UNCHANGED <<cvImages, cvCanvas, cvRecorderFailed>>
    /\ UNCHANGED <<appVars, svcVars>>

HoldElapsed ==
    /\ cvPc = "holding"
    /\ IF cvI < Len(cvImages)
       THEN /\ cvI' = cvI + 1
            /\ cvPc' = "loading"
            /\ cvEvents' = cvEvents \o
                  <<Ev("hold", cvI), Ev("progress:encoding", cvI + 1),
                    Ev("load", cvI + 1)>>
            /\ UNCHANGED <<cvRecorder, cvResult>>
       ELSE /\ cvRecorder' = "inactive"
            /\ cvEvents' = cvEvents \o
                  <<Ev("hold", cvI), Ev("progress:finalizing", 0), Ev("stop", 0)>>
            /\ IF cvRecorderFailed
               THEN /\ cvPc' = "rejected"
                    /\ cvResult' = CompileRejected("RecorderError", "")
               ELSE /\ cvPc' = "stopping"
                    /\ UNCHANGED cvResult
            /\ UNCHANGED cvI
    /\ UNCHANGED <<cvImages, cvCanvas, cvRecorderFailed>>
    /\ UNCHANGED <<appVars, svcVars>>

\* recorder.onstop: the blob URL is created, and resolves recorderStopped
\* unless onerror has rejected it.
RecorderStopped ==
    /\ cvRecorder = "inactive"
    /\ cvRecorder' = "stopped"
    /\ cvEvents' = Append(cvEvents, Ev("createObjectURL", 0))
    /\ objectUrls' = objectUrls \cup {cvImages}
    /\ IF cvPc = "stopping"
       THEN /\ cvPc' = "resolved"
            /\ cvResult' = CompileResolved(cvImages)
       ELSE UNCHANGED <<cvPc, cvResult>>
    /\ UNCHANGED <<cvImages, cvI, cvCanvas, cvRecorderFailed>>
    /\ UNCHANGED svcVars
    /\ UNCHANGED <<appState, uploadedImage, displayImage, estimatedAge,
                   targetAge, isGenerating, isVideoGenerating,
                   videoGenerationMessage, generatedVideoUrl, showVideoModal,
                   errorMessage, debouncedTargetAge, timer, readers, estimates,
                   generations, batch, uploads>>

\* recorder.onerror: rejects recorderStopped, which the call awaits only
\* after the loop.
RecorderError ==
    /\ cvRecorder \in {"recording", "inactive"}
    /\ ~cvRecorderFailed
    /\ cvRecorderFailed' = TRUE
    /\ IF cvPc = "stopping"
       THEN /\ cvPc' = "rejected"
            /\ cvResult' = CompileRejected("RecorderError", "")
       ELSE UNCHANGED <<cvPc, cvResult>>
    /\ UNCHANGED <<cvImages, cvI, cvEvents, cvCanvas, cvRecorder>>
    /\ UNCHANGED <<appVars, svcVars>>

NextCompile ==
    \/ \E imageUrls \in CompileInputs : CompileStart(imageUrls)
    \/ \E ctx, supported \in BOOLEAN : ImageLoaded(ctx, supported)
    \/ ImageLoadFailed
    \/ HoldElapsed
    \/ RecorderStopped
    \/ RecorderError

SpecCompile == Init /\ [][NextCompile]_vars

\* ------------------------------------------------------------ the service
maxRetries   == 3
initialDelay == 1000

\* The numeric ages, and the other shapes, of response.text in the model.
AgeResponses == {-7, 0, 1, 34, 100, 101, 250}
EstimateResponses ==
    {[kind |-> "numberAge", age |-> a, text |-> ""] : a \in AgeResponses}
    \cup {[kind |-> k, age |-> 0, text |-> ""] :
              k \in {"stringAge", "missingAge", "notJson"}}
\* What a response without inline image data says: a refusal, a text that
\* happens to contain the retry marker, or nothing (response.text empty).
ResponseTexts == {"I cannot edit this photo.", "INTERNAL policy: declined.", ""}
TextHasInternal(t) == t = "INTERNAL policy: declined."
GenerateResponses ==
    {[kind |-> "image", age |-> 0, text |-> ""]}
    \cup {[kind |-> "text", age |-> 0, text |-> t] : t \in ResponseTexts}
Responses(fn) ==
    IF fn = "estimatePersonAge" THEN EstimateResponses ELSE GenerateResponses

RECURSIVE Pow2(_)
Pow2(n) == IF n <= 0 THEN 1 ELSE 2 * Pow2(n - 1)

\* errorMessage.includes('"code":500') || errorMessage.includes('INTERNAL')
IsInternalError(e) == e.code500 \/ e.internal

\* Variants of the retry test: without the attempt limit, and without the
\* classification of the error.
ShouldRetryNoLimit(e, a)  == IsInternalError(e)
ShouldRetryAnyError(e, a) == a < maxRetries

\* if (isInternalError && attempt < maxRetries)
ShouldRetry(e, a) == IsInternalError(e) /\ a < maxRetries

\* Variant of the delay: the exponent off by one.
BackoffDelayDoubled(a) == initialDelay * Pow2(a)

\* initialDelay * Math.pow(2, attempt - 1)
BackoffDelay(a) == initialDelay * Pow2(a - 1)

\* Variant of the clamp: the lower bound forgotten.
ClampAgeUpperOnly(a) == Min2(MaxAge, a)

\* Math.max(1, Math.min(100, result.age))
ClampAge(a) == Max2(MinAge, Min2(MaxAge, a))

\* estimatePersonAge's try/catch around JSON.parse and the typeof test.
ParseAge(r) ==
    IF r.kind = "numberAge"
    THEN [status |-> "resolved", age |-> ClampAge(r.age), err |-> NoErr]
    ELSE [status |-> "rejected", age |-> 0,
          err |-> Err("InvalidResponseFormat", FALSE, FALSE)]

\* Variant: the await moved inside the try block, so that the catch turns
\* every failure into the format error.
EstimateOnThrowCaught(e) ==
    [status |-> "rejected", age |-> 0,
     err |-> Err("InvalidResponseFormat", FALSE, FALSE)]

\* estimatePersonAge awaits callGeminiWithRetry outside its try block: what
\* the wrapper throws is what the caller sees.
EstimateOnThrow(e) == [status |-> "rejected", age |-> 0, err |-> e]

\* generateAgeImage's catch: a new Error whose message ends with the caught
\* error's message.
WrapGenerateError(e) ==
    [status |-> "rejected", age |-> 0, err |-> [e EXCEPT !.wrapped = TRUE]]

\* The error processImageResponse throws: its message quotes
\* textResponse || 'No text response received.'
NoImageError(t) ==
    [Err("NoImageInResponse", FALSE, TextHasInternal(t)) EXCEPT
        !.text = IF t = "" THEN "No text response received." ELSE t]

\* Variant: the message without the response text.
ProcessImageResponseNoText(r) ==
    IF r.kind = "image"
    THEN [status |-> "resolved", age |-> 0, err |-> NoErr]
    ELSE WrapGenerateError(Err("NoImageInResponse", FALSE, FALSE))

\* processImageResponse inside generateAgeImage's try.
ProcessImageResponse(r) ==
    IF r.kind = "image"
    THEN [status |-> "resolved", age |-> 0, err |-> NoErr]
    ELSE WrapGenerateError(NoImageError(r.text))

\* What the exported function does with the wrapper's response / exception.
OnReturn(fn, r) ==
    IF fn = "estimatePersonAge" THEN ParseAge(r) ELSE ProcessImageResponse(r)
OnThrow(fn, e) ==
    IF fn = "estimatePersonAge" THEN EstimateOnThrow(e) ELSE WrapGenerateError(e)

Settled == svcPc \in {"resolved", "rejected"}

\* estimatePersonAge(url) / generateAgeImage(url, prompt) is called; valid
\* says whether url matches /^data:(image\/\w+);base64,(.*)$/.
StartCall(fn, valid) ==
    /\ svcPc = "idle" \/ Settled
    /\ svcCalls < MaxServiceCalls
    /\ svcCalls' = svcCalls + 1
    /\ svcFn' = fn
    /\ delays' = <<>>
    /\ outcomes' = <<>>
    /\ response' = NoResponse
    /\ retryEnd' = NoRetryEnd
    /\ IF valid
       THEN /\ svcPc' = "request"
            /\ attempt' = 1
            /\ svcResult' = NoResult
       ELSE /\ svcPc' = "rejected"
            /\ attempt' = 0
            /\ svcResult' = [status |-> "rejected", age |-> 0,
                             err |-> Err("InvalidDataUrl", FALSE, FALSE)]
    /\ UNCHANGED <<appVars, compileVars>>

\* ai.models.generateContent resolves: the wrapper returns the response and
\* the exported function finishes with it.
AttemptReturns(r) ==
    /\ svcPc = "request"
    /\ r \in Responses(svcFn)
    /\ outcomes' = Append(outcomes, Ok)
    /\ response' = r
    /\ retryEnd' = [status |-> "returned", err |-> NoErr]
    /\ svcResult' = OnReturn(svcFn, r)
    /\ svcPc' = svcResult'.status
    /\ UNCHANGED <<svcFn, attempt, delays, svcCalls>>
    /\ UNCHANGED <<appVars, compileVars>>

\* ai.models.generateContent rejects with e: the catch block of the loop.
AttemptThrows(e) ==
    /\ svcPc = "request"
    /\ outcomes' = Append(outcomes, e)
    /\ IF ShouldRetry(e, attempt)
       THEN /\ delays' = Append(delays, BackoffDelay(attempt))
            /\ svcPc' = "backoff"
            /\ UNCHANGED <<retryEnd, svcResult>>
       ELSE /\ retryEnd' = [status |-> "threw", err |-> e]
            /\ svcResult' = OnThrow(svcFn, e)
            /\ svcPc' = "rejected"
            /\ UNCHANGED delays
    /\ UNCHANGED <<svcFn, attempt, response, svcCalls>>
    /\ UNCHANGED <<appVars, compileVars>>

\* The backoff timeout elapses: continue, attempt++, and the loop test.
BackoffElapsed ==
    /\ svcPc = "backoff"
    /\ attempt' = attempt + 1
    /\ IF attempt + 1 <= maxRetries
       THEN /\ svcPc' = "request"
            /\ UNCHANGED <<retryEnd, svcResult>>
       ELSE /\ retryEnd' = [status |-> "threw",
                            err |-> Err("AllRetriesFailed", FALSE, FALSE)]
            /\ svcResult' = OnThrow(svcFn, retryEnd'.err)
            /\ svcPc' = "rejected"
    /\ UNCHANGED <<svcFn, delays, outcomes, response, svcCalls>>
    /\ UNCHANGED <<appVars, compileVars>>

NextService ==
    \/ \E fn \in {"estimatePersonAge", "generateAgeImage"}, valid \in BOOLEAN :
          StartCall(fn, valid)
    \/ \E r \in EstimateResponses \cup GenerateResponses : AttemptReturns(r)
    \/ \E e \in ApiErrors : AttemptThrows(e)
    \/ BackoffElapsed

SpecService == Init /\ [][NextService]_vars

\* ---------------------------------------------- properties of the service
IsFailure(o) == o.name # "ok"
HasMarker(o) == o.code500 \/ o.internal

\* C6: every call through the retry wrapper makes at most 3 attempts; when
\* the 3rd attempt fails, even with a transient marker, the wrapper throws
\* that failure at once: no further backoff is taken and no 4th attempt made.
C6_AtMostThreeAttempts ==
    /\ attempt <= 3
    /\ Len(outcomes) <= 3
    /\ Len(delays) <= 2
    /\ (Len(outcomes) = 3 /\ IsFailure(outcomes[3])) =>
          /\ svcPc = "rejected"
          /\ retryEnd = [status |-> "threw", err |-> outcomes[3]]
          /\ Len(delays) = 2

C6_Witness ==
    /\ Len(outcomes) = 3
    /\ HasMarker(outcomes[3])
    /\ retryEnd.status = "threw"

\* C7: a call whose first two attempts fail with a transient marker and
\* whose third attempt succeeds returns that success after exactly 3
\* attempts, having waited 1000 ms and then 2000 ms; in general the wait
\* before retry i is 1000 * 2^(i-1).
C7_RetryBackoff ==
    /\ \A i \in 1..Len(delays) : delays[i] = 1000 * Pow2(i - 1)
    /\ svcPc = "request" => Len(delays) = attempt - 1
    /\ (/\ Len(outcomes) = 3
        /\ HasMarker(outcomes[1]) /\ HasMarker(outcomes[2])
        /\ ~IsFailure(outcomes[3])) =>
          /\ retryEnd.status = "returned"
          /\ attempt = 3
          /\ delays = <<1000, 2000>>

C7_Witness ==
    /\ Len(outcomes) = 3
    /\ HasMarker(outcomes[1]) /\ HasMarker(outcomes[2])
    /\ ~IsFailure(outcomes[3])
    /\ retryEnd.status = "returned"

\* C8: an attempt that fails with an error carrying no transient marker ends
\* the call with that error right away: it is the last attempt, no backoff
\* follows it, and a failure of the first attempt means one attempt in total.
C8_NonTransientNoRetry ==
    \A i \in 1..Len(outcomes) :
        (IsFailure(outcomes[i]) /\ ~HasMarker(outcomes[i])) =>
            /\ i = Len(outcomes)
            /\ attempt = i
            /\ Len(delays) = i - 1
            /\ svcPc = "rejected"
            /\ retryEnd = [status |-> "threw", err |-> outcomes[i]]

C8_Witness ==
    /\ Len(outcomes) = 1
    /\ IsFailure(outcomes[1]) /\ ~HasMarker(outcomes[1])
    /\ svcPc = "rejected"
    /\ attempt = 1
    /\ delays = <<>>

\* C9: whenever estimatePersonAge gets a response with a numeric age it
\* resolves with that age clamped into [1,100]: 1 below the range, 100 above
\* it, and the age itself inside it.
C9_Clamping ==
    (svcFn = "estimatePersonAge" /\ response.kind = "numberAge") =>
        /\ svcPc = "resolved"
        /\ svcResult.age \in 1..100
        /\ response.age < 1 => svcResult.age = 1
        /\ response.age > 100 => svcResult.age = 100
        /\ response.age \in 1..100 => svcResult.age = response.age

C9_Witness ==
    /\ svcFn = "estimatePersonAge"
    /\ response.kind = "numberAge"
    /\ response.age < 1
    /\ svcPc = "resolved"
    /\ svcResult.age = 1

\* C10 as claimed: estimatePersonAge rejects with InvalidResponseFormat when
\* the age is missing or not a number, and also when the transport has given
\* up (the wrapper threw).
C10_AsClaimed ==
    (/\ svcFn = "estimatePersonAge"
     /\ svcPc = "rejected"
     /\ \/ retryEnd.status = "returned"
        \/ retryEnd.status = "threw" /\ Len(outcomes) = maxRetries) =>
        svcResult.err.name = "InvalidResponseFormat"

\* C10 amended: estimatePersonAge rejects with InvalidResponseFormat exactly
\* when the wrapper returned a response whose age is missing or not a
\* number; when the wrapper threw, the caller sees the wrapper's own error,
\* unchanged.
C10_FormatOrRawTransport ==
    svcFn = "estimatePersonAge" =>
        /\ (retryEnd.status = "returned" /\ response.kind # "numberAge") =>
              /\ svcPc = "rejected"
              /\ svcResult.err.name = "InvalidResponseFormat"
        /\ retryEnd.status = "threw" =>
              /\ svcPc = "rejected"
              /\ svcResult.err = retryEnd.err
              /\ svcResult.err.name # "InvalidResponseFormat"
        /\ svcResult.err.name = "InvalidResponseFormat" =>
              retryEnd.status = "returned"

C10_Witness ==
    /\ svcFn = "estimatePersonAge"
    /\ Len(outcomes) = 3
    /\ retryEnd.status = "threw"
    /\ svcResult.err.name = "ApiError"

\* C11: generateAgeImage on a response with text and no inline image rejects
\* with the no-image error, whose message contains the response text; the
\* error is not a transport error, and the response ends the call: the
\* attempt that returned it is the last, no backoff follows it, and when it
\* was the first attempt exactly one request was made.
C11_TextOnlySoftFailure ==
    (/\ svcFn = "generateAgeImage"
     /\ retryEnd.status = "returned"
     /\ response.kind = "text" /\ response.text # "") =>
        /\ svcPc = "rejected"
        /\ svcResult.err.name = "NoImageInResponse"
        /\ svcResult.err.text = response.text
        /\ svcResult.err.name \notin {"ApiError", "AllRetriesFailed"}
        /\ Len(outcomes) = attempt
        /\ outcomes[attempt] = Ok
        /\ Len(delays) = attempt - 1
        /\ (\A i \in 1..Len(outcomes) : ~IsFailure(outcomes[i])) =>
              attempt = 1 /\ delays = <<>>

C11_Witness ==
    /\ svcFn = "generateAgeImage"
    /\ response.kind = "text"
    /\ TextHasInternal(response.text)
    /\ attempt = 1
    /\ svcPc = "rejected"
    /\ svcResult.err.text = response.text

\* -------------------------------------------- properties of the controller
\* The step resolves the i-th promise in flight and puts its image on display.
Overwrites(i) ==
    /\ generations' = RemoveAt(generations, i)
    /\ displayImage' # displayImage
    /\ displayImage' = Gen(generations[i].img, generations[i].prompt)

\* The step issues a generateAgeImage call from generateNewAgeImage.
Issues == Len(generations') > Len(generations)
Issued == generations'[Len(generations')]

\* C1: only the response to the most recently issued interactive request may
\* update displayImage: a response that arrives after a later request was
\* issued is discarded.
C1_StaleDiscard ==
    [][\A i \in DOMAIN generations : Overwrites(i) => generations[i].latest]_vars

\* C2: an interactive request is issued only for the stabilized target: the
\* age it asks for is the current targetAge, and that value has outlived the
\* debounce timer (no timer pending, debounced value equal to it).
C2_OnlyStabilizedTarget ==
    [][Issues =>
          /\ Issued.prompt.age = targetAge'
          /\ debouncedTargetAge' = targetAge'
          /\ timer' = NoTimer]_vars

\* C3: in a session of one upload, no synthesize call is made before the
\* slider moves: none when the estimate arrives and the session enters
\* interactive; when the slider, moved to T # A, has kept its value for the
\* debounce interval, exactly one call is made, with a prompt that embeds
\* the year currentYear - A + T; and when that call returns, displayImage
\* becomes the returned image.
C3_EndToEnd ==
    [][uploads = 1 =>
          /\ (appState = "estimating" /\ appState' = "interactive") =>
                ~Issues /\ displayImage' = uploadedImage'
          /\ (/\ appState = "interactive"
              /\ timer # NoTimer /\ timer' = NoTimer
              /\ timer = targetAge /\ timer # estimatedAge
              /\ generations = <<>>) =>
                /\ Len(generations') = 1
                /\ Issued.img = uploadedImage
                /\ Issued.prompt.age = targetAge
                /\ Issued.prompt.targetYear
                      = (CurrentYear - estimatedAge) + targetAge
          /\ (/\ appState = "interactive"
              /\ Len(generations) = 1 /\ generations' = <<>>
              /\ errorMessage' = errorMessage) =>
                displayImage' = Gen(generations[1].img, generations[1].prompt)
      ]_vars

\* C4: in phase interactive, while targetAge equals estimatedAge the
\* displayed image is the uploaded image.
C4_AnchorInvariant ==
    (appState = "interactive" /\ targetAge = estimatedAge) =>
        displayImage = uploadedImage

C12_PhaseEdges ==
    [][appState' # appState =>
          \/ appState = "idle" /\ appState' = "estimating"
          \/ appState = "estimating" /\ appState' = "interactive"
          \/ /\ appState = "estimating" /\ appState' = "error"
             /\ errorMessage' # NoError
          \/ appState \in {"interactive", "error"} /\ appState' = "idle"]_vars

\* C13: when an interactive generateAgeImage call fails (the model declined
\* with text, or the transport failed), the controller records a message,
\* leaves the phase as it is (interactive stays interactive) and ends its
\* busy state, so that the slider of the interactive view is enabled again
\* unless a video is being generated.
C13_SynthesisFailureAdvisory ==
    [][\A i \in DOMAIN generations :
          (generations' = RemoveAt(generations, i)
              /\ errorMessage' # errorMessage) =>
            /\ appState' = appState
            /\ errorMessage'[1] = "generate"
            /\ errorMessage'[2] \in GenerateErrors
            /\ ~isGenerating'
            /\ UNCHANGED <<uploadedImage, displayImage, estimatedAge, targetAge>>
            /\ (appState' = "interactive" /\ ~isVideoGenerating') =>
                  /\ estimatedAge' # NullAge
                  /\ ~(isGenerating' \/ isVideoGenerating')
                  /\ \E v \in SliderAges : v # targetAge']_vars

\* A session of one upload in which a generation has failed: the message
\* is shown in the interactive view and nothing is in flight.
C13_Witness ==
    /\ appState = "interactive"
    /\ uploads = 1
    /\ errorMessage \in {<<"generate", e>> : e \in GenerateErrors}
    /\ ~isGenerating
    /\ generations = <<>>
    /\ targetAge # estimatedAge

\* C14: a reset leaves the phase idle with every session field cleared
\* (uploaded and displayed image, estimated and target age, busy flags,
\* error message, progress message) and no video URL; the video URL the
\* session held is released: it is no longer a live blob URL.
C14_ResetClearsAndReleases ==
    [][(appState # "idle" /\ appState' = "idle") =>
          /\ uploadedImage' = NoImage
          /\ displayImage' = NoImage
          /\ estimatedAge' = NullAge
          /\ targetAge' = 0
          /\ ~isGenerating'
          /\ ~isVideoGenerating'
          /\ errorMessage' = NoError
          /\ videoGenerationMessage' = NoMessage
          /\ generatedVideoUrl' = NoVideo
          /\ ~showVideoModal'
          /\ generatedVideoUrl # NoVideo => generatedVideoUrl \notin objectUrls']_vars

\* C15: after a reset made while an interactive or a batch call was in
\* flight, the call's completion changes nothing in the cleared session:
\* displayed image, error message, busy flags, progress message and video
\* URL stay as the reset left them.
C15_LateCallbackIgnored ==
    [][uploadedImage = NoImage =>
          /\ \A i \in DOMAIN generations :
                generations' = RemoveAt(generations, i) =>
                    UNCHANGED <<displayImage, errorMessage, isGenerating>>
          /\ (batch.pc # "idle" /\ batch' # batch) =>
                UNCHANGED <<displayImage, errorMessage, isVideoGenerating,
                            videoGenerationMessage, generatedVideoUrl,
                            showVideoModal>>]_vars

\* ------------------------------------------- properties of the video flow
\* The 20 values round(1 + i * 99 / 19), i = 0..19, worked out by hand.
ExpectedAges ==
    <<1, 6, 11, 17, 22, 27, 32, 37, 43, 48, 53, 58, 64, 69, 74, 79, 84, 90,
      95, 100>>

\* age is i * 99 / 19 + 1 rounded to the nearest integer.
IsRounded(age, i) ==
    /\ 38 * (age - 1) - 198 * i <= 19
    /\ 38 * (age - 1) - 198 * i > -19

\* The ages of the frames collected so far, in the order of the loop.
FrameAges == [j \in 1..Len(batch.frames) |-> batch.frames[j].age]

\* C16 as claimed: the batch's target ages are the 20 values
\* round(1 + i * 99 / 19), i = 0..19, in that order, the first of them 1 and
\* the last 99.
C16_AsClaimed ==
    batch.pc = "compile" =>
        /\ Len(FrameAges) = 20
        /\ \A j \in 1..20 : IsRounded(FrameAges[j], j - 1)
        /\ FrameAges[1] = 1
        /\ FrameAges[20] = 99

\* C16 amended: the batch's target ages are the 20 values
\* round(1 + i * 99 / 19), i = 0..19, requested in that order; the first is 1
\* and the last is 100.
C16_TargetAges ==
    /\ batch.pc = "frame" =>
          /\ Len(FrameAges) = batch.i - 1
          /\ FrameAges = SubSeq(ExpectedAges, 1, batch.i - 1)
          /\ videoGenerationMessage.age = ExpectedAges[batch.i]
    /\ batch.pc = "compile" =>
          /\ FrameAges = ExpectedAges
          /\ Len(FrameAges) = 20
          /\ \A j \in 1..20 : IsRounded(FrameAges[j], j - 1)
          /\ FrameAges[1] = 1
          /\ FrameAges[20] = 100

C16_Witness ==
    /\ batch.pc = "compile"
    /\ Len(batch.frames) = 20
    /\ batch.frames[20].age = 100
    /\ batch.frames[1].age = 1

\* The age a frame image of the batch shows: a generated frame carries the
\* age of its prompt, the uploaded image shows the estimated age.
AgeShown(url, est) == IF url.kind = "frame" THEN url.age ELSE est

\* C17: on a successful batch the images handed to createVideoFromImages
\* follow strictly increasing frame age, in the order they were generated;
\* there are exactly 20 of them and every frame age lies in [1,100].
C17_BatchOrdering ==
    /\ batch.pc = "compile" =>
          /\ Len(batch.frames) = 20
          /\ \A j \in 1..20 : batch.frames[j].age \in 1..100
          /\ \A j \in 1..19 : batch.frames[j].age < batch.frames[j + 1].age
          /\ FrameAges = ExpectedAges
          /\ \A j \in 1..20 :
                AgeShown(batch.frames[j].url, batch.est) = batch.frames[j].age
    /\ generatedVideoUrl # NoVideo =>
          /\ Len(generatedVideoUrl) = 20
          /\ \A j \in 1..19 :
                AgeShown(generatedVideoUrl[j], estimatedAge)
                    < AgeShown(generatedVideoUrl[j + 1], estimatedAge)

C17_Witness ==
    /\ generatedVideoUrl # NoVideo
    /\ Len(generatedVideoUrl) = 20
    /\ showVideoModal
    /\ AgeShown(generatedVideoUrl[1], estimatedAge) = 1
    /\ AgeShown(generatedVideoUrl[20], estimatedAge) = 100

\* The frames of the batch that came from a generateAgeImage call.
CalledFrames == {j \in 1..Len(batch.frames) : batch.frames[j].url.kind = "frame"}

\* C18: the frame at the estimated age is the uploaded image itself and no
\* call is made for it; every other frame is the result of one
\* generateAgeImage call, whose prompt embeds the frame's age and year.  A
\* successful batch has made 20 calls when the estimated age is not one of
\* the 20 ages and 19 when it is.
C18_ReuseAtEstimatedAge ==
    /\ \A j \in 1..Len(batch.frames) :
          LET f == batch.frames[j]
          IN IF f.age = batch.est
             THEN f.url = batch.up
             ELSE /\ f.url.kind = "frame"
                  /\ f.url.src = batch.up.src
                  /\ f.url.age = f.age
                  /\ f.url.year = (CurrentYear - batch.est) + f.age
    /\ batch.pc = "frame" =>
          /\ videoGenerationMessage.age # batch.est
          /\ ExpectedAges[batch.i] # batch.est
    /\ batch.pc = "compile" =>
          Cardinality(CalledFrames) =
              IF \E j \in 1..20 : ExpectedAges[j] = batch.est THEN 19 ELSE 20

C18_Witness ==
    /\ batch.pc = "compile"
    /\ batch.est = 43
    /\ Cardinality(CalledFrames) = 19
    /\ batch.frames[9].url = batch.up

\* The batch ends in failure: it stops while awaiting a frame, or the
\* compiler rejects and no video URL comes out.
BatchFails ==
    /\ batch.pc # "idle"
    /\ batch'.pc = "idle"
    /\ batch.pc = "frame" \/ generatedVideoUrl' = NoVideo

\* C19: when a frame request of the batch fails, or the compiler fails, the
\* whole batch fails: no further frame is requested and the compiler does
\* not produce a video, no video URL is held afterwards (the one of an
\* earlier batch neither), one error message is recorded and the phase
\* stays interactive.
C19_BatchFailsWhole ==
    [][BatchFails =>
          /\ batch' = NoBatch
          /\ generatedVideoUrl = NoVideo
          /\ generatedVideoUrl' = NoVideo
          /\ objectUrls' = objectUrls
          /\ errorMessage'[1] = "video"
          /\ batch.pc = "frame" => errorMessage'[2] \in GenerateErrors
          /\ batch.pc = "compile" => errorMessage'[2] \in CompileErrors
          /\ ~isVideoGenerating'
          /\ videoGenerationMessage' = NoMessage
          /\ appState = "interactive"
          /\ appState' = "interactive"]_vars

\* A batch has failed after an earlier batch of the session had produced a
\* video: the message is shown and no video URL is held.
C19_Witness ==
    /\ errorMessage[1] = "video"
    /\ objectUrls # {}
    /\ generatedVideoUrl = NoVideo
    /\ batch = NoBatch
    /\ ~isVideoGenerating
    /\ appState = "interactive"

\* C20: createVideoFromImages on an empty sequence rejects with the
\* empty-input error before any progress message, image load, canvas or
\* recorder creation or recorder start, and produces no blob URL.
C20_EmptyInputRejected ==
    (cvPc # "idle" /\ cvImages = <<>>) =>
        /\ cvPc = "rejected"
        /\ cvResult = CompileRejected("EmptyInput", "")
        /\ cvEvents = <<>>
        /\ cvCanvas = NoImage
        /\ cvRecorder = "none"
        /\ objectUrls = {}

C20_Witness ==
    /\ cvImages = <<>>
    /\ cvPc = "rejected"
    /\ cvResult.err = "EmptyInput"
    /\ cvEvents = <<>>

\* C21: when createVideoFromImages fails because an image does not load, at
\* the first position or a later one, the error tells which position of the
\* sequence failed, and no blob URL is produced.
C21_ImageLoadErrorNamesIndex ==
    (cvPc = "rejected" /\ cvResult.err = "ImageLoadError") =>
        /\ {j \in DOMAIN cvImages :
               Substring50(cvImages[j]) = cvResult.src} = {cvI}
        /\ cvResult.url = <<>>
        /\ objectUrls = {}

\* The generateAgeImage calls in flight: those of generateNewAgeImage, and
\* the one handleCreateVideo's loop awaits.
InFlight == Len(generations) + (IF batch.pc = "frame" THEN 1 ELSE 0)

\* C22: at most one generateAgeImage call is in flight at any moment: two
\* calls of generateNewAgeImage never overlap, and none overlaps a frame
\* call of the video, also when the slider is moved and the video is
\* started before the debounce delay has passed.
C22_OneRequestInFlight == InFlight <= 1

\* Something is in flight: a generateAgeImage call of generateNewAgeImage,
\* or handleCreateVideo between its start and its finally block.
Working == generations # <<>> \/ batch.pc # "idle"

\* C23: isGenerating or isVideoGenerating is true in every state in which
\* an interactive generation or a video generation or compilation is in
\* flight, and both are false when none is; the end of one call does not
\* clear the busy state while another call is still in flight.
C23_BusyWhileInFlight == IsBusy <=> Working

\* C24: every generateAgeImage call made by the controller, from
\* generateNewAgeImage or from the video's loop, is for an age from 1 to
\* 100, and targetAge is from 1 to 100 whenever the phase is interactive:
\* the initial and reset value 0 never reaches the service.
C24_RequestAgesInRange ==
    /\ \A i \in DOMAIN generations :
           generations[i].prompt.age \in MinAge..MaxAge
    /\ batch.pc = "frame" => AgesToGenerate[batch.i] \in MinAge..MaxAge
    /\ appState = "interactive" => targetAge \in MinAge..MaxAge

\* The progress messages of frames 1..n, in the order of the frames.
FrameMessages(n) ==
    [j \in 1..n |-> Message("Generating frame", j, ExpectedAges[j])]

\* s begins with t.
StartsWith(s, t) == Len(t) <= Len(s) /\ SubSeq(s, 1, Len(t)) = t

\* C25: the frames of the video are processed one after the other in the
\* order of generation.  While frame i is awaited the messages reported are
\* exactly those of frames 1..i in that order and the frames 1..i-1 are all
\* collected; the step that ends the wait for frame i has frame i collected
\* before anything of a later frame, and only adds to the messages;
\* createVideoFromImages is called only when all 20 frames are collected.
C25_SequentialFrames ==
    [][/\ batch.pc = "frame" =>
            /\ batch.msgs = FrameMessages(batch.i)
            /\ videoGenerationMessage = batch.msgs[batch.i]
            /\ FrameAges = SubSeq(ExpectedAges, 1, batch.i - 1)
       /\ batch.pc = "compile" =>
            /\ FrameAges = ExpectedAges
            /\ StartsWith(batch.msgs, FrameMessages(NumFrames))
            /\ Len(batch.msgs) = NumFrames + 2
       /\ (batch.pc = "frame" /\ batch'.pc # "idle" /\ batch' # batch) =>
            /\ batch'.i > batch.i
            /\ Len(batch'.frames) >= batch.i
            /\ batch'.frames[batch.i] =
                  [age |-> ExpectedAges[batch.i],
                   url |-> Frame(batch.up,
                                 Prompt(ExpectedAges[batch.i], batch.est))]
            /\ StartsWith(batch'.msgs, batch.msgs)
       /\ (batch.pc # "compile" /\ batch'.pc = "compile") =>
            Len(batch'.frames) = NumFrames
      ]_vars

\* The loop has gone through its 20 frames, one of them the uploaded image
\* taken without a call, and the compiler has been called.
C25_Witness ==
    /\ batch.pc = "compile"
    /\ Len(batch.frames) = NumFrames
    /\ \E j \in 1..NumFrames : batch.frames[j].url = batch.up
    /\ batch.msgs[NumFrames] = Message("Generating frame", 20, 100)

\* The steps of a call that C26 speaks of, in the order they were taken.
EncodingSteps ==
    SelectSeq(cvEvents,
              LAMBDA e : e.ev \in {"start", "progress:encoding", "draw", "hold",
                                   "progress:finalizing", "stop",
                                   "createObjectURL"})

\* For images 1..n in turn: the progress message, the draw, the hold.
RECURSIVE FrameSteps(_)
FrameSteps(n) ==
    IF n = 0 THEN <<>>
    ELSE FrameSteps(n - 1) \o
         <<Ev("progress:encoding", n), Ev("draw", n), Ev("hold", n)>>

\* The whole order for n images: the recorder started, the n images, the
\* final message, the recorder stopped, the blob URL made in onstop.
EncodingOrder(n) ==
    <<Ev("start", 0)>> \o FrameSteps(n) \o
    <<Ev("progress:finalizing", 0), Ev("stop", 0), Ev("createObjectURL", 0)>>

\* C26: for N images, in the order given, createVideoFromImages reports
\* 'Encoding frame i of N', draws image i and holds it, once each; after the
\* hold of image N it reports 'Finalizing video...' and stops the recorder,
\* and the promise resolves with the blob URL only after the recorder's
\* stop event.  The recorder is started before the first draw and not
\* stopped before the last hold has ended.
C26_EncodingOrder ==
    (cvPc # "idle" /\ cvImages # <<>>) =>
        /\ StartsWith(EncodingOrder(Len(cvImages)), EncodingSteps)
        /\ cvPc = "resolved" =>
              /\ EncodingSteps = EncodingOrder(Len(cvImages))
              /\ cvRecorder = "stopped"
              /\ cvResult = CompileResolved(cvImages)
        /\ cvRecorder \in {"inactive", "stopped"} =>
              /\ cvI = Len(cvImages)
              /\ Cardinality({k \in DOMAIN cvEvents : cvEvents[k].ev = "hold"})
                    = Len(cvImages)

\* A call with more than one image has resolved.
C26_Witness ==
    /\ cvPc = "resolved"
    /\ Len(cvImages) > 1
    /\ cvEvents[Len(cvEvents)] = Ev("createObjectURL", 0)

\* The Create Evolution Video button can be pressed.
VideoButtonEnabled == appState = "interactive" /\ ~IsBusy

\* C27: within a session no two video generations, and so no two calls of
\* createVideoFromImages, are in progress at once.  While handleCreateVideo
\* runs the button that starts it cannot be pressed; a step that starts
\* one finds none running; and a running one is only carried forward, with
\* the image and the age it started with, never begun again.
C27_OneBatchAtATime ==
    [][/\ batch.pc # "idle" => ~VideoButtonEnabled
       /\ (isVideoGenerating' /\ ~isVideoGenerating) =>
            /\ batch.pc = "idle"
            /\ batch'.pc # "idle"
       /\ (batch.pc # "idle" /\ batch'.pc # "idle" /\ batch' # batch) =>
            /\ batch'.i > batch.i
            /\ batch'.up = batch.up
            /\ batch'.est = batch.est
            /\ StartsWith(batch'.msgs, batch.msgs)
      ]_vars

\* A second video generation of the session, running after the first has
\* ended with its video.
C27_Witness ==
    /\ batch.pc = "frame"
    /\ batch.i > 1
    /\ isVideoGenerating
    /\ objectUrls # {}

\* The step is the catch and finally of generateNewAgeImage for the call i.
Fails(i) ==
    /\ generations' = RemoveAt(generations, i)
    /\ errorMessage' # errorMessage
    /\ errorMessage'[1] = "generate"

\* C28: a failed interactive generation changes nothing but the error
\* message, which is set, and isGenerating, which becomes false: the
\* displayed and the uploaded image, the estimated and the target age, the
\* phase and the video URL stay as they were, as does the rest of the
\* video's state.  A step that starts an interactive generation leaves no
\* error message.
C28_FailureFrame ==
    [][/\ \A i \in DOMAIN generations :
            Fails(i) =>
              /\ errorMessage'[2] \in GenerateErrors
              /\ isGenerating' = FALSE
              /\ UNCHANGED <<displayImage, uploadedImage, estimatedAge,
                             targetAge, appState, generatedVideoUrl>>
              /\ UNCHANGED <<showVideoModal, objectUrls, isVideoGenerating,
                             videoGenerationMessage, batch, debouncedTargetAge,
                             timer>>
       /\ Issues => errorMessage' = NoError /\ isGenerating'
      ]_vars

\* A generation has failed in a session that holds a video and shows a
\* generated image: the message is set, the video and the image are kept.
C28_Witness ==
    /\ appState = "interactive"
    /\ errorMessage[1] = "generate"
    /\ ~isGenerating
    /\ generatedVideoUrl # NoVideo
    /\ displayImage.kind = "generated"
    /\ generations = <<>>

=============================================================================
